---- MODULE Spec2Model ----
(***************************************************************************)
(* Model of CachedSandbox                                                  *)
(* (packages/server/shared/src/lib/flows/sandbox/caching/cached-sandbox.ts)*)
(*                                                                         *)
(* One slot, several callers.  Every caller repeatedly issues init(),      *)
(* prepare() or decrementActiveSandboxCount().  A call is split at the     *)
(* points where the TypeScript code awaits: the wait for the Mutex, each   *)
(* filesystem call, each collaborator call and the Promise.all join.       *)
(* Code between two awaits runs as one step (single-threaded event loop).  *)
(***************************************************************************)
EXTENDS Integers, Sequences, FiniteSets, TLC

\* ---------------------------------------------------------------- bounds
NumCallers   == 2
MaxCalls     == 3
MaxArtifacts == 2
MaxTime      == 1

Callers   == 1..NumCallers
Artifacts == 1..MaxArtifacts

\* ------------------------------------------------- CachedSandboxState enum
CREATED     == "CREATED"
INITIALIZED == "INITIALIZED"
READY       == "READY"
CachedSandboxState == {CREATED, INITIALIZED, READY}

VARIABLES
    state,               \* this._state
    activeSandboxCount,  \* this._activeSandboxCount
    lastUsedAt,          \* this._lastUsedAt
    dirExists,           \* whether the directory at path() exists on disk
    now,                 \* the wall clock read by dayjs()
    lockHolder,          \* caller inside lock.runExclusive, 0 when free
    lockQueue,           \* callers waiting in lock.runExclusive, FIFO
    pc,                  \* where each caller's current call stands
    codeSteps,           \* number of code artifacts of a caller's prepare()
    nCalls,              \* calls issued so far
    buildJobs,           \* per caller, the Promise.all it awaits: how many
                         \* processCodeStep promises are pending, and whether
                         \* one has rejected
    orphans,             \* processCodeStep promises still pending whose
                         \* prepare() call has already returned
    \* ---- observations (history) used to state the properties
    obs,                 \* per caller, what its prepare() call in progress has seen
    invoked,             \* how often each collaborator has been invoked
    failures,            \* filesystem / collaborator calls that failed
    returned,            \* prepare() calls returned, by outcome; the latest outcome;
                         \* whether a call issued at INITIALIZED has found READY
    released,            \* decrementActiveSandboxCount() calls issued
    passedAt,            \* clock value read by the latest prepare() past the check
    okAt,                \* clock value read by the latest prepare() that succeeded
    inits,               \* init() calls: directory resets begun, calls failed,
                         \* and how the latest call through the lock ended
    borrowers            \* references each caller holds (prepare() past the check,
                         \* not yet given back by a release of that caller), and
                         \* whether a caller holding none has run a release

slot   == <<state, activeSandboxCount, lastUsedAt>>
lock   == <<lockHolder, lockQueue>>
jobs   == <<buildJobs, orphans>>
ghost  == <<obs, invoked, failures, returned, released, passedAt, okAt, inits,
            borrowers>>
vars   == <<state, activeSandboxCount, lastUsedAt, dirExists, now, lockHolder,
            lockQueue, pc, codeSteps, nCalls, buildJobs, orphans,
            obs, invoked, failures, returned, released, passedAt, okAt, inits,
            borrowers>>

\* ------------------------------------------------------------ pure parts
\* Each condition or update of the code is an operator of its own.  The
\* operator written just above some of them is a faulty variant of it, used
\* to confirm that the properties below depend on that piece of code.
isInUse == activeSandboxCount > 0

notInitializedNever(s) == FALSE

\* line 74
notInitialized(s) == s = CREATED

alreadyPreparedNever(s) == FALSE

\* line 82
alreadyPrepared(s) == s # INITIALIZED

initSkippedNever(s) == FALSE

\* line 53
initSkipped(s) == s # CREATED

stateDuringResetEager(s) == INITIALIZED

\* lines 57-58: _state is not assigned before rm and mkdir have returned
stateDuringReset(s) == s

unlockOnThrowMissing(h) == h

\* runExclusive frees the Mutex also when the callback throws
unlockOnThrow(h) == 0

decrementMissingGuard(n) == n - 1

decrementStuck(n) == n

\* lines 134-138
decrement(n) == IF n = 0 THEN n ELSE n - 1

borrowSkipsCount(f, t) == [f EXCEPT !.lastUsedAt = t]

\* lines 79-80: the bookkeeping of a prepare() that passed the check
borrow(f, t) == [f EXCEPT !.count = f.count + 1, !.lastUsedAt = t]

catchBlockResetsState(f) == [f EXCEPT !.state = CREATED]

catchBlockRollsBackCount(f) ==
    [f EXCEPT !.count = IF f.count > 0 THEN f.count - 1 ELSE 0]

catchBlockRollsBackStamp(f) == [f EXCEPT !.lastUsedAt = 0]

\* lines 103-122: the catch block only enriches and rethrows the error
catchBlock(f) == f

fields == [state |-> state, count |-> activeSandboxCount, lastUsedAt |-> lastUsedAt]

\* the Mutex: runExclusive lets the longest-waiting caller in when it is free
canEnterIgnoringHolder(p) == lockQueue # <<>> /\ Head(lockQueue) = p

canEnter(p) == lockHolder = 0 /\ lockQueue # <<>> /\ Head(lockQueue) = p

NoJobs == [pending |-> 0, rejected |-> FALSE]

\* Promise.all: rejects as soon as one promise rejects, fulfils when all did
promiseAllRejected(b) == b.rejected

promiseAllFulfilledEarly(b) == ~b.rejected

promiseAllFulfilled(b) == ~b.rejected /\ b.pending = 0

\* processCodeStep promises that have not settled yet
awaitedJobs == {p \in Callers : buildJobs[p].pending > 0}

NoObs == [atCall |-> "-", atEnter |-> "-", before |-> 0, stamp |-> 0,
          built |-> FALSE]

\* ------------------------------------------------------------------ Init
Init ==
    /\ state = CREATED
    /\ activeSandboxCount = 0
    /\ now = 0
    /\ lastUsedAt = 0
    /\ dirExists \in BOOLEAN
    /\ lockHolder = 0
    /\ lockQueue = <<>>
    /\ pc = [p \in Callers |-> "idle"]
    /\ codeSteps = [p \in Callers |-> 0]
    /\ nCalls = 0
    /\ buildJobs = [p \in Callers |-> NoJobs]
    /\ orphans = 0
    /\ obs = [p \in Callers |-> NoObs]
    /\ invoked = [init |-> 0, pieces |-> 0, engine |-> 0, archives |-> 0,
                  code |-> [a \in Artifacts |-> 0]]
    /\ failures = 0
    /\ returned = [ok |-> 0, notInitialized |-> 0, buildError |-> 0, last |-> "-",
                   waitedReuse |-> FALSE]
    /\ released = 0
    /\ passedAt = 0
    /\ okAt = 0
    /\ inits = [reset |-> 0, failed |-> 0, last |-> "-"]
    /\ borrowers = [held |-> [p \in Callers |-> 0], excess |-> FALSE]

\* a caller issues a call: it joins the Mutex queue
Issue(p, label) ==
    /\ pc[p] = "idle"
    /\ nCalls < MaxCalls
    /\ nCalls' = nCalls + 1
    /\ pc' = [pc EXCEPT ![p] = label]
    /\ lockQueue' = Append(lockQueue, p)

\* ---------------------------------------------------------------- init()
InitCall(p) ==
    /\ Issue(p, "init_wait")
    /\ UNCHANGED <<slot, dirExists, now, lockHolder, codeSteps, jobs, ghost>>

\* lines 52-57: enter the lock; no-op unless CREATED, else start rm
InitBody(p) ==
    /\ pc[p] = "init_wait"
    /\ canEnter(p)
    /\ lockQueue' = Tail(lockQueue)
    /\ IF initSkipped(state)
          THEN /\ pc' = [pc EXCEPT ![p] = "idle"]
               /\ inits' = [inits EXCEPT !.last = "skipped"]
               /\ UNCHANGED <<lockHolder, state>>
          ELSE /\ pc' = [pc EXCEPT ![p] = "init_rm"]
               /\ lockHolder' = p
               /\ state' = stateDuringReset(state)
               /\ inits' = [inits EXCEPT !.reset = @ + 1]
    /\ UNCHANGED <<activeSandboxCount, lastUsedAt, dirExists, now, codeSteps,
                   nCalls, jobs, obs, invoked, failures, returned, released,
                   passedAt, okAt, borrowers>>

\* line 57 / 143: rm(path, {recursive, force}) returns or fails
InitRm(p) ==
    /\ pc[p] = "init_rm"
    /\ \E ok \in BOOLEAN :
         IF ok
            THEN /\ dirExists' = FALSE
                 /\ pc' = [pc EXCEPT ![p] = "init_mkdir"]
                 /\ UNCHANGED <<lockHolder, failures, inits>>
            ELSE /\ pc' = [pc EXCEPT ![p] = "idle"]
                 /\ lockHolder' = unlockOnThrow(lockHolder)
                 /\ failures' = failures + 1
                 /\ inits' = [inits EXCEPT !.failed = @ + 1, !.last = "failed"]
                 /\ UNCHANGED dirExists
    /\ UNCHANGED <<slot, now, lockQueue, codeSteps, nCalls, jobs,
                   obs, invoked, returned, released, passedAt, okAt, borrowers>>

\* line 58: mkdir(path, {recursive}) returns or fails
InitMkdir(p) ==
    /\ pc[p] = "init_mkdir"
    /\ \E ok \in BOOLEAN :
         IF ok
            THEN /\ dirExists' = TRUE
                 /\ pc' = [pc EXCEPT ![p] = "init_set"]
                 /\ UNCHANGED <<lockHolder, failures, inits>>
            ELSE /\ pc' = [pc EXCEPT ![p] = "idle"]
                 /\ lockHolder' = unlockOnThrow(lockHolder)
                 /\ failures' = failures + 1
                 /\ inits' = [inits EXCEPT !.failed = @ + 1, !.last = "failed"]
                 /\ UNCHANGED dirExists
    /\ UNCHANGED <<slot, now, lockQueue, codeSteps, nCalls, jobs,
                   obs, invoked, returned, released, passedAt, okAt, borrowers>>

\* line 60: the continuation after mkdir sets the state and leaves the lock
InitSetState(p) ==
    /\ pc[p] = "init_set"
    /\ state' = INITIALIZED
    /\ pc' = [pc EXCEPT ![p] = "idle"]
    /\ lockHolder' = 0
    /\ inits' = [inits EXCEPT !.last = "ok"]
    /\ UNCHANGED <<activeSandboxCount, lastUsedAt, dirExists, now, lockQueue,
                   codeSteps, nCalls, jobs, obs, invoked, failures, returned,
                   released, passedAt, okAt, borrowers>>

\* ------------------------------------------------------------- prepare()
Min(a, b) == IF a < b THEN a ELSE b

\* dayjs(): the clock never runs backwards between two reads
clockReads == now .. Min(now + 1, MaxTime)

PrepareCall(p) ==
    /\ Issue(p, "prepare_wait")
    /\ \E k \in 0..MaxArtifacts : codeSteps' = [codeSteps EXCEPT ![p] = k]
    /\ obs' = [obs EXCEPT ![p] = [NoObs EXCEPT !.atCall = state]]
    /\ UNCHANGED <<slot, dirExists, now, lockHolder, jobs,
                   invoked, failures, returned, released, passedAt, okAt, inits, borrowers>>

\* the callback throws: runExclusive frees the lock, the catch block of
\* prepare() (lines 103-122) runs and the enriched error reaches the caller
Throw(p, kind) ==
    LET f == catchBlock(fields) IN
    /\ state' = f.state
    /\ activeSandboxCount' = f.count
    /\ lastUsedAt' = f.lastUsedAt
    /\ pc' = [pc EXCEPT ![p] = "idle"]
    /\ lockHolder' = unlockOnThrow(lockHolder)
    /\ obs' = [obs EXCEPT ![p] = NoObs]
    /\ codeSteps' = [codeSteps EXCEPT ![p] = 0]
    /\ returned' = [returned EXCEPT ![kind] = @ + 1, !.last = kind]

\* the callback returns: runExclusive frees the lock, prepare() resolves
Return(p, o) ==
    /\ pc' = [pc EXCEPT ![p] = "idle"]
    /\ lockHolder' = 0
    /\ obs' = [obs EXCEPT ![p] = NoObs]
    /\ codeSteps' = [codeSteps EXCEPT ![p] = 0]
    /\ returned' = [returned EXCEPT !.ok = @ + 1, !.last = "ok",
                                    !.waitedReuse = @ \/ (o.atCall = INITIALIZED /\ ~o.built)]
    /\ okAt' = o.stamp

\* lines 73-87: enter the lock, check, count, stamp, reuse or start building
PrepareBody(p) ==
    /\ pc[p] = "prepare_wait"
    /\ canEnter(p)
    /\ lockQueue' = Tail(lockQueue)
    /\ LET o == [obs[p] EXCEPT !.atEnter = state, !.before = activeSandboxCount] IN
       IF notInitialized(state)
          THEN /\ Throw(p, "notInitialized")
               /\ UNCHANGED <<now, invoked, passedAt, okAt, borrowers>>
          ELSE \E t \in clockReads :
                 LET f  == borrow(fields, t)
                     o2 == [o EXCEPT !.stamp = t]
                 IN /\ now' = t
                    /\ passedAt' = t
                    /\ borrowers' = [borrowers EXCEPT !.held[p] = @ + 1]
                    /\ IF alreadyPrepared(state)
                          THEN /\ state' = f.state
                               /\ activeSandboxCount' = f.count
                               /\ lastUsedAt' = f.lastUsedAt
                               /\ Return(p, o2)
                               /\ UNCHANGED invoked
                          ELSE /\ state' = f.state
                               /\ activeSandboxCount' = f.count
                               /\ lastUsedAt' = f.lastUsedAt
                               /\ pc' = [pc EXCEPT ![p] = "packageManager_init"]
                               /\ lockHolder' = p
                               /\ obs' = [obs EXCEPT ![p] = [o2 EXCEPT !.built = TRUE]]
                               /\ invoked' = [invoked EXCEPT !.init = @ + 1]
                               /\ UNCHANGED <<returned, okAt, codeSteps>>
    /\ UNCHANGED <<dirExists, nCalls, jobs, failures, released, inits>>

\* a sequential build step fails: the error leaves the callback
StepFails(p) ==
    /\ Throw(p, "buildError")
    /\ failures' = failures + 1
    /\ UNCHANGED <<dirExists, now, lockQueue, nCalls,
                   jobs, invoked, released, passedAt, okAt, inits, borrowers>>

\* line 87 returns; on success line 89 invokes pieceManager.install
PackageManagerInitReturns(p) ==
    /\ pc[p] = "packageManager_init"
    /\ \/ /\ pc' = [pc EXCEPT ![p] = "pieceManager_install"]
          /\ invoked' = [invoked EXCEPT !.pieces = @ + 1]
          /\ UNCHANGED <<slot, dirExists, now, lock, codeSteps, nCalls,
                         jobs, obs, failures, returned, released, passedAt, okAt, inits, borrowers>>
       \/ StepFails(p)

\* line 89 returns; on success line 94 invokes engineInstaller.install
PieceManagerInstallReturns(p) ==
    /\ pc[p] = "pieceManager_install"
    /\ \/ /\ pc' = [pc EXCEPT ![p] = "engineInstaller_install"]
          /\ invoked' = [invoked EXCEPT !.engine = @ + 1]
          /\ UNCHANGED <<slot, dirExists, now, lock, codeSteps, nCalls,
                         jobs, obs, failures, returned, released, passedAt, okAt, inits, borrowers>>
       \/ StepFails(p)

\* line 94 returns; on success lines 98, 147-153 start one processCodeStep
\* per artifact and await Promise.all of them
EngineInstallerInstallReturns(p) ==
    /\ pc[p] = "engineInstaller_install"
    /\ \/ /\ pc' = [pc EXCEPT ![p] = "buildCodeArchives"]
          /\ buildJobs' = [buildJobs EXCEPT ![p] =
                              [pending |-> codeSteps[p], rejected |-> FALSE]]
          /\ invoked' = [invoked EXCEPT !.archives = @ + 1, !.code =
                 [a \in Artifacts |-> IF a <= codeSteps[p] THEN @[a] + 1 ELSE @[a]]]
          /\ UNCHANGED <<slot, dirExists, now, lock, codeSteps, nCalls, orphans,
                         obs, failures, returned, released, passedAt, okAt, inits, borrowers>>
       \/ /\ StepFails(p)

\* one codeBuilder.processCodeStep promise of an awaited Promise.all settles
ProcessCodeStepSettles(p) ==
    /\ buildJobs[p].pending > 0
    /\ \E ok \in BOOLEAN :
         /\ buildJobs' = [buildJobs EXCEPT ![p] =
                             [pending |-> @.pending - 1,
                              rejected |-> @.rejected \/ ~ok]]
         /\ failures' = IF ok THEN failures ELSE failures + 1
    /\ UNCHANGED <<slot, dirExists, now, lock, pc, codeSteps, nCalls, orphans,
                   obs, invoked, returned, released, passedAt, okAt, inits, borrowers>>

\* a processCodeStep promise settles after its prepare() call has returned:
\* nobody looks at the outcome
OrphanSettles ==
    /\ orphans > 0
    /\ orphans' = orphans - 1
    /\ UNCHANGED <<slot, dirExists, now, lock, pc, codeSteps, nCalls, buildJobs, ghost>>

\* lines 153, 100: Promise.all settles; on success the state becomes READY.
\* On rejection the promises still pending are left running.
PromiseAllSettles(p) ==
    /\ pc[p] = "buildCodeArchives"
    /\ \/ /\ promiseAllRejected(buildJobs[p])
          /\ Throw(p, "buildError")
          /\ orphans' = orphans + buildJobs[p].pending
          /\ UNCHANGED okAt
       \/ /\ promiseAllFulfilled(buildJobs[p])
          /\ state' = READY
          /\ Return(p, obs[p])
          /\ UNCHANGED <<activeSandboxCount, lastUsedAt, orphans>>
    /\ buildJobs' = [buildJobs EXCEPT ![p] = NoJobs]
    /\ UNCHANGED <<dirExists, now, lockQueue, nCalls,
                   invoked, failures, released, passedAt, inits, borrowers>>

\* ------------------------------------------ decrementActiveSandboxCount()
ReleaseCall(p) ==
    /\ Issue(p, "release_wait")
    /\ released' = released + 1
    /\ UNCHANGED <<slot, dirExists, now, lockHolder, codeSteps, jobs,
                   obs, invoked, failures, returned, passedAt, okAt, inits, borrowers>>

\* lines 133-139
ReleaseBody(p) ==
    /\ pc[p] = "release_wait"
    /\ canEnter(p)
    /\ lockQueue' = Tail(lockQueue)
    /\ activeSandboxCount' = decrement(activeSandboxCount)
    /\ pc' = [pc EXCEPT ![p] = "idle"]
    /\ borrowers' = IF borrowers.held[p] > 0
                       THEN [borrowers EXCEPT !.held[p] = @ - 1]
                       ELSE [borrowers EXCEPT !.excess = TRUE]
    /\ UNCHANGED <<state, lastUsedAt, dirExists, now, lockHolder, codeSteps,
                   nCalls, jobs, obs, invoked, failures, returned, released,
                   passedAt, okAt, inits>>

\* ------------------------------------------------------------------ Next
Next ==
    \/ \E p \in Callers : InitCall(p)
    \/ \E p \in Callers : InitBody(p)
    \/ \E p \in Callers : InitRm(p)
    \/ \E p \in Callers : InitMkdir(p)
    \/ \E p \in Callers : InitSetState(p)
    \/ \E p \in Callers : PrepareCall(p)
    \/ \E p \in Callers : PrepareBody(p)
    \/ \E p \in Callers : PackageManagerInitReturns(p)
    \/ \E p \in Callers : PieceManagerInstallReturns(p)
    \/ \E p \in Callers : EngineInstallerInstallReturns(p)
    \/ \E p \in Callers : ProcessCodeStepSettles(p)
    \/ OrphanSettles
    \/ \E p \in Callers : PromiseAllSettles(p)
    \/ \E p \in Callers : ReleaseCall(p)
    \/ \E p \in Callers : ReleaseBody(p)

Spec == Init /\ [][Next]_vars

TypeOK ==
    /\ state \in CachedSandboxState
    /\ activeSandboxCount \in Int
    /\ lastUsedAt \in 0..MaxTime
    /\ lockHolder \in Callers \cup {0}

\* ============================================================ properties
building(p) == pc[p] \in {"packageManager_init", "pieceManager_install",
                          "engineInstaller_install", "buildCodeArchives"}

inBuild == Cardinality({p \in Callers : building(p)})

\* the step in which p's prepare() enters the lock
enters(p) == pc[p] = "prepare_wait" /\ pc'[p] # "prepare_wait"

\* the step in which p's prepare() fails inside the build sequence
buildFails(p) == building(p) /\ returned'.buildError = returned.buildError + 1

rank(s) == CASE s = CREATED -> 0 [] s = INITIALIZED -> 1 [] s = READY -> 2

\* C1: as long as no collaborator has failed, every collaborator of the
\* build sequence has been invoked at most once (the code builder once per
\* artifact of the building call), no prepare() has failed in the build, a
\* prepare() that enters the lock once a build has begun finds READY and
\* returns success without invoking anything, and a prepare() that has
\* returned success means the sequence has run exactly once.
C1_SingleBuild ==
    /\ [](failures = 0 =>
            /\ invoked.init <= 1 /\ invoked.pieces <= 1 /\ invoked.engine <= 1
            /\ \A a \in Artifacts : invoked.code[a] <= 1
            /\ returned.buildError = 0
            /\ \A p \in Callers :
                 pc[p] = "buildCodeArchives" =>
                    \A a \in Artifacts :
                       invoked.code[a] = IF a <= codeSteps[p] THEN 1 ELSE 0
            /\ returned.ok >= 1 =>
                 (state = READY /\ invoked.init = 1 /\ invoked.pieces = 1
                                /\ invoked.engine = 1))
    /\ [][\A p \in Callers :
            (enters(p) /\ failures = 0 /\ invoked.init >= 1) =>
               /\ state = READY
               /\ returned'.ok = returned.ok + 1
               /\ invoked' = invoked]_vars

C1_Witness ==
    /\ failures = 0
    /\ returned.ok = 2
    /\ returned.waitedReuse
    /\ invoked.init = 1 /\ invoked.pieces = 1 /\ invoked.engine = 1
    /\ invoked.code = [a \in Artifacts |-> IF a <= 2 THEN 1 ELSE 0]

\* C2 (as stated): a prepare() issued while the state is CREATED does not get
\* past the initialization check.
C2_FailsIfCreatedWhenCalled ==
    \A p \in Callers : obs[p].atCall = CREATED => ~obs[p].built

\* C2 (amended): a prepare() whose check, made once it holds the lock, finds
\* the state CREATED fails with the not-initialized error, leaves state,
\* activeSandboxCount and lastUsedAt as they were and invokes no collaborator.
C2_FailsIfCreatedWhenChecked ==
    [][\A p \in Callers :
         (enters(p) /\ state = CREATED) =>
            /\ returned'.notInitialized = returned.notInitialized + 1
            /\ slot' = slot
            /\ invoked' = invoked
            /\ jobs' = jobs]_vars

C2_Witness ==
    /\ returned.last = "notInitialized"
    /\ state = CREATED
    /\ activeSandboxCount = 0
    /\ invoked.init = 0

\* C3 (as stated): with no release issued and no prepare() in progress,
\* activeSandboxCount is the number of prepare() calls that returned success.
C3_CountIsSuccesses ==
    (released = 0 /\ inBuild = 0) => activeSandboxCount = returned.ok

\* C3 (amended): with no release issued, activeSandboxCount is the number of
\* prepare() calls that passed the initialization check: those that returned
\* success, those that failed in the build, and the one still building.
C3_CountIsPassedChecks ==
    released = 0 =>
       activeSandboxCount = returned.ok + returned.buildError + inBuild

C3_Witness ==
    /\ released = 0
    /\ inBuild = 0
    /\ returned.ok >= 1
    /\ returned.buildError >= 1
    /\ activeSandboxCount = returned.ok + returned.buildError

\* C4: activeSandboxCount is never negative, and a release that finds it 0
\* leaves it 0.
C4_NeverNegative ==
    /\ [](activeSandboxCount >= 0)
    /\ [][\A p \in Callers :
            (pc[p] = "release_wait" /\ pc'[p] = "idle" /\ activeSandboxCount = 0)
               => activeSandboxCount' = 0]_vars

C4_Witness ==
    /\ released > returned.ok + returned.buildError + inBuild
    /\ \A p \in Callers : pc[p] # "release_wait"
    /\ activeSandboxCount = 0

\* C5: after a prepare() failed in the build sequence the state is
\* INITIALIZED and the directory is still there, and the next prepare() to
\* enter the lock starts the build sequence again at packageManager.init.
C5_FailedBuildRetries ==
    /\ [](returned.last = "buildError" => (state = INITIALIZED /\ dirExists))
    /\ [][\A p \in Callers :
            /\ buildFails(p) => (state' = INITIALIZED /\ dirExists' /\ lockHolder' = 0)
            /\ (enters(p) /\ returned.last = "buildError") =>
                  /\ pc'[p] = "packageManager_init"
                  /\ invoked'.init = invoked.init + 1]_vars

C5_Witness ==
    /\ returned.last = "buildError"
    /\ invoked.engine >= 1
    /\ \E p \in Callers : pc[p] = "packageManager_init" /\ invoked.init = 2

\* C6: every processCodeStep job still running belongs to a prepare() call
\* that has not returned yet (the call waits for all the jobs it launched).
C6_JobsOutliveNoCall ==
    orphans = 0

\* C7: the jobs writing to the directory at any one time were all launched
\* by the same prepare() call, and none is running once the slot is READY.
C7_SingleWriter ==
    /\ Cardinality(awaitedJobs) <= 1
    /\ awaitedJobs # {} => orphans = 0
    /\ state = READY => (orphans = 0 /\ awaitedJobs = {})

\* C8: the step in which a prepare() fails in the build sequence leaves
\* activeSandboxCount one above its value before the call and lastUsedAt at
\* the time the call read.
C8_NoRollback ==
    [][\A p \in Callers :
         buildFails(p) =>
            /\ activeSandboxCount' = obs[p].before + 1
            /\ lastUsedAt' = obs[p].stamp
            /\ obs[p].stamp = passedAt]_vars

C8_Witness ==
    /\ returned.last = "buildError"
    /\ returned.buildError = 1
    /\ returned.ok = 0
    /\ released = 0
    /\ invoked.engine = 1
    /\ activeSandboxCount = 1
    /\ lastUsedAt = 1

\* C9 (as stated): whenever no prepare() is in progress, lastUsedAt is the
\* time of the latest prepare() that returned success.
C9_StampOfLatestSuccess ==
    inBuild = 0 => lastUsedAt = okAt

\* C9 (amended): lastUsedAt is always the time read by the latest prepare()
\* that passed the initialization check, whether or not it then succeeded;
\* init(), release and a not-initialized prepare() never change it.
C9_StampOfLatestPassedCheck ==
    lastUsedAt = passedAt

C9_Witness ==
    /\ inBuild = 0
    /\ returned.last = "buildError"
    /\ lastUsedAt = passedAt
    /\ lastUsedAt > okAt

\* C10: the state never moves backwards along CREATED, INITIALIZED, READY,
\* and the step in which a build fails leaves it INITIALIZED.
C10_Monotonic ==
    [][/\ rank(state') >= rank(state)
       /\ \A p \in Callers : buildFails(p) => state' = INITIALIZED]_vars

C10_Witness ==
    /\ state = READY
    /\ returned.buildError >= 1

\* the step in which p's init() enters the lock
initEnters(p) == pc[p] = "init_wait" /\ pc'[p] # "init_wait"

\* the step in which p's init() fails (rm or mkdir rejects)
initFails(p) == pc[p] \in {"init_rm", "init_mkdir"} /\ pc'[p] = "idle"

\* C11 (as stated): the directory exists exactly when the state is not
\* CREATED.
C11_DirIffNotCreated ==
    dirExists <=> state # CREATED

\* C11 (amended): whenever the state is not CREATED the directory exists
\* (it may also exist while the state is CREATED).
C11_DirExistsOnceInitialized ==
    state # CREATED => dirExists

C11_Witness ==
    /\ state = INITIALIZED
    /\ dirExists
    /\ inits.reset = 1
    /\ inits.last = "ok"

\* C13: an init() that finds the state not CREATED returns at once and
\* changes neither the fields, nor the directory, nor the lock; the
\* directory is reset at most once more than init() calls have failed.
C13_InitIdempotent ==
    /\ [](inits.reset <= inits.failed + 1)
    /\ [][\A p \in Callers :
            (initEnters(p) /\ state # CREATED) =>
               /\ pc'[p] = "idle"
               /\ slot' = slot
               /\ dirExists' = dirExists
               /\ lockHolder' = lockHolder
               /\ inits'.reset = inits.reset
               /\ inits'.last = "skipped"]_vars

C13_Witness ==
    /\ inits.last = "skipped"
    /\ inits.reset = 1
    /\ inits.failed = 0
    /\ state = INITIALIZED
    /\ dirExists
    /\ nCalls = 2

\* C18: an init() that fails leaves the state CREATED and the fields as
\* they were; until an init() succeeds, a prepare() that enters the lock
\* fails with the not-initialized error and an init() that enters the lock
\* begins the directory reset again.
C18_FailedInitLeavesCreated ==
    /\ [](inits.last = "failed" =>
            (state = CREATED /\ activeSandboxCount = 0 /\ lastUsedAt = 0))
    /\ [][\A p \in Callers :
            /\ initFails(p) => (slot' = slot /\ state' = CREATED)
            /\ (enters(p) /\ inits.last = "failed") =>
                  returned'.notInitialized = returned.notInitialized + 1
            /\ (initEnters(p) /\ inits.last = "failed") =>
                  (pc'[p] = "init_rm" /\ inits'.reset = inits.reset + 1)]_vars

C18_Witness ==
    /\ inits.failed = 1
    /\ inits.reset = 2
    /\ returned.notInitialized = 1
    /\ state = CREATED

RECURSIVE SumHeld(_)
SumHeld(S) == IF S = {} THEN 0
              ELSE LET p == CHOOSE q \in S : TRUE
                   IN borrowers.held[p] + SumHeld(S \ {p})

\* references held by all the callers together
holders == SumHeld(Callers)

\* the step in which p's release runs
releases(p) == pc[p] = "release_wait" /\ pc'[p] = "idle"

\* C12 (as stated): activeSandboxCount is the number of references held,
\* so isInUse() is true whenever a caller holds one.
C12_CountIsHolders ==
    /\ activeSandboxCount = holders
    /\ holders > 0 => isInUse

\* C12 (amended): the same, as long as no caller holding no reference has
\* run a release.
C12_CountIsHoldersUnlessExcessRelease ==
    ~borrowers.excess =>
       /\ activeSandboxCount = holders
       /\ holders > 0 => isInUse

C12_Witness ==
    /\ ~borrowers.excess
    /\ holders = 2
    /\ \A p \in Callers : borrowers.held[p] >= 1
    /\ isInUse
    /\ state = READY

inBody(p) == building(p) \/ pc[p] \in {"init_rm", "init_mkdir", "init_set"}

\* C14: a prepare() that enters the lock with the state READY returns
\* success in that step, adds 1 to activeSandboxCount, sets lastUsedAt to
\* the time it reads, leaves the state READY and invokes no collaborator,
\* whatever codeSteps it was given.
C14_ReusePath ==
    [][\A p \in Callers :
         (enters(p) /\ state = READY) =>
            /\ pc'[p] = "idle"
            /\ returned'.ok = returned.ok + 1
            /\ activeSandboxCount' = activeSandboxCount + 1
            /\ lastUsedAt' = now'
            /\ state' = READY
            /\ invoked' = invoked
            /\ jobs' = jobs]_vars

C14_Witness ==
    /\ state = READY
    /\ returned.ok = 2
    /\ ~returned.waitedReuse
    /\ invoked.init = 1
    /\ activeSandboxCount = 2
    /\ lastUsedAt = 1
    /\ okAt = 1

\* C15: a release changes neither the state, nor lastUsedAt, nor the
\* directory; it lowers activeSandboxCount by exactly 1 when it is above 0
\* and leaves it otherwise.
C15_ReleaseFrame ==
    [][\A p \in Callers :
         releases(p) =>
            /\ state' = state
            /\ lastUsedAt' = lastUsedAt
            /\ dirExists' = dirExists
            /\ activeSandboxCount' =
                  IF activeSandboxCount > 0 THEN activeSandboxCount - 1
                                            ELSE activeSandboxCount]_vars

C15_Witness ==
    /\ released = 1
    /\ \A p \in Callers : pc[p] = "idle"
    /\ returned.ok = 1
    /\ activeSandboxCount = 0
    /\ ~borrowers.excess
    /\ lastUsedAt = 1
    /\ state = READY

\* C16: at most one caller is inside an init() or prepare() body, it is the
\* lock holder, and a release runs only while nobody is inside a body.
C16_OneBodyAtATime ==
    /\ [](/\ Cardinality({p \in Callers : inBody(p)}) <= 1
          /\ \A p \in Callers : inBody(p) => lockHolder = p)
    /\ [][\A p \in Callers :
            (releases(p) \/ enters(p) \/ initEnters(p)) =>
               \A q \in Callers : ~inBody(q)]_vars

C16_Witness ==
    \E p, q \in Callers :
       /\ pc[p] = "buildCodeArchives" /\ buildJobs[p].pending > 0
       /\ lockHolder = p
       /\ lockQueue = <<q>>
       /\ pc[q] = "release_wait"

\* the step in which caller p moves from one place of its call to another
moves(p, from, to) == pc[p] = from /\ pc'[p] = to

\* C17: the build steps are invoked in the order packageManager.init,
\* pieceManager.install, engineInstaller.install, buildCodeArchives, each
\* only in the step in which the one before it returned successfully; the
\* step in which a build fails invokes nothing; and the state becomes READY
\* only in the step in which Promise.all finds every code build fulfilled.
C17_StepsInOrder ==
    /\ [](/\ invoked.pieces <= invoked.init
          /\ invoked.engine <= invoked.pieces
          /\ invoked.archives <= invoked.engine
          /\ \A p \in Callers :
               /\ pc[p] = "packageManager_init" => invoked.pieces < invoked.init
               /\ pc[p] = "pieceManager_install" => invoked.engine < invoked.pieces
               /\ pc[p] = "engineInstaller_install" => invoked.archives < invoked.engine
          /\ state = READY =>
               (invoked.archives >= 1 /\ returned.ok >= 1))
    /\ [][/\ invoked'.init # invoked.init =>
               \E p \in Callers : moves(p, "prepare_wait", "packageManager_init")
          /\ invoked'.pieces # invoked.pieces =>
               \E p \in Callers : moves(p, "packageManager_init", "pieceManager_install")
          /\ invoked'.engine # invoked.engine =>
               \E p \in Callers : moves(p, "pieceManager_install", "engineInstaller_install")
          /\ invoked'.archives # invoked.archives =>
               \E p \in Callers : moves(p, "engineInstaller_install", "buildCodeArchives")
          /\ \A p \in Callers : buildFails(p) => invoked' = invoked
          /\ (state # READY /\ state' = READY) =>
               \E p \in Callers :
                  /\ moves(p, "buildCodeArchives", "idle")
                  /\ buildJobs[p].pending = 0
                  /\ ~buildJobs[p].rejected]_vars

C17_Witness ==
    /\ state = READY
    /\ failures = 0
    /\ returned.ok = 1
    /\ invoked.init = 1 /\ invoked.pieces = 1 /\ invoked.engine = 1
    /\ invoked.archives = 1
    /\ invoked.code = [a \in Artifacts |-> IF a <= 2 THEN 1 ELSE 0]
    /\ orphans = 0

\* ---------------------------------------------------------------- fairness
\* Every filesystem call and every collaborator call eventually returns or
\* fails, and the Mutex hands the lock to the longest-waiting caller once it
\* is free.  Nothing obliges a caller to issue a call.  Progress(p) is the
\* next step of p's call in progress, whichever it is.
Progress(p) ==
    \/ InitBody(p)
    \/ InitRm(p)
    \/ InitMkdir(p)
    \/ InitSetState(p)
    \/ PrepareBody(p)
    \/ PackageManagerInitReturns(p)
    \/ PieceManagerInstallReturns(p)
    \/ EngineInstallerInstallReturns(p)
    \/ ProcessCodeStepSettles(p)
    \/ PromiseAllSettles(p)
    \/ ReleaseBody(p)

FairSpec == Init /\ [][Next]_vars /\ \A p \in Callers : WF_vars(Progress(p))

\* C19: the lock is held only by a caller that is inside an init() or
\* prepare() body, and every call that has been issued eventually returns
\* (no caller stays forever in a call).
C19_EveryCallReturns ==
    /\ [](lockHolder # 0 => inBody(lockHolder))
    /\ \A p \in Callers : []<>(pc[p] = "idle")

C19_Witness ==
    /\ returned.last = "ok"
    /\ returned.buildError = 1
    /\ inits.last = "ok"
    /\ lockHolder = 0
    /\ lockQueue = <<>>
    /\ \A p \in Callers : pc[p] = "idle"

====
